---------------------------- MODULE Spec2Model ----------------------------
(***************************************************************************)
(* A model of the financial document extractor (financialBackend):         *)
(*   utils.py         text extraction (remote OCR, local PDF, hybrid),     *)
(*                    text normalisation, spreadsheet loading              *)
(*   app.py           quality scoring, the extraction step and the         *)
(*                    analysis step of the dashboard session               *)
(*   orchestrator.py  classification, the three specialised extractors     *)
(*                                                                         *)
(* A Python str is modelled as a sequence of one-character strings, so     *)
(* that strip, split, join, replace and the regular expressions of the     *)
(* source are computed character by character.                             *)
(***************************************************************************)
EXTENDS Integers, Sequences, FiniteSets, TLC

(***************************************************************************)
(* Python str primitives                                                   *)
(***************************************************************************)

\* The whitespace characters str.strip() removes and \s matches (those the
\* model's alphabets can produce).
Whitespace == {" ", "\n", "\t"}

RECURSIVE LStrip(_)
LStrip(s) ==
    IF s = <<>> THEN <<>>
    ELSE IF Head(s) \in Whitespace THEN LStrip(Tail(s)) ELSE s

RECURSIVE RStrip(_)
RStrip(s) ==
    IF s = <<>> THEN <<>>
    ELSE IF s[Len(s)] \in Whitespace THEN RStrip(SubSeq(s, 1, Len(s) - 1)) ELSE s

\* str.strip()
Strip(s) == RStrip(LStrip(s))

\* s.startswith(p)
StartsWith(s, p) == Len(p) <= Len(s) /\ SubSeq(s, 1, Len(p)) = p

\* s.endswith(p)
EndsWith(s, p) == Len(p) <= Len(s) /\ SubSeq(s, Len(s) - Len(p) + 1, Len(s)) = p

\* p in s
Contains(s, p) == \E i \in 1..(Len(s) - Len(p) + 1) : SubSeq(s, i, i + Len(p) - 1) = p

\* s.split(sep) for a one-character sep: always at least one piece.
RECURSIVE SplitFrom(_, _, _)
SplitFrom(s, sep, cur) ==
    IF s = <<>> THEN <<cur>>
    ELSE IF Head(s) = sep THEN <<cur>> \o SplitFrom(Tail(s), sep, <<>>)
    ELSE SplitFrom(Tail(s), sep, Append(cur, Head(s)))

Split(s, sep) == SplitFrom(s, sep, <<>>)

\* sep.join(parts)
RECURSIVE Join(_, _)
Join(parts, sep) ==
    IF parts = <<>> THEN <<>>
    ELSE IF Len(parts) = 1 THEN parts[1]
    ELSE parts[1] \o sep \o Join(Tail(parts), sep)

\* s.replace(old, new): every non-overlapping occurrence, left to right.
RECURSIVE Replace(_, _, _)
Replace(s, old, new) ==
    IF s = <<>> THEN <<>>
    ELSE IF StartsWith(s, old)
         THEN new \o Replace(SubSeq(s, Len(old) + 1, Len(s)), old, new)
         ELSE <<Head(s)>> \o Replace(Tail(s), old, new)

LowerLetters ==
    <<"a", "b", "c", "d", "e", "f", "g", "h", "i", "j", "k", "l", "m",
      "n", "o", "p", "q", "r", "s", "t", "u", "v", "w", "x", "y", "z">>
UpperLetters ==
    <<"A", "B", "C", "D", "E", "F", "G", "H", "I", "J", "K", "L", "M",
      "N", "O", "P", "Q", "R", "S", "T", "U", "V", "W", "X", "Y", "Z">>
Digits == {"0", "1", "2", "3", "4", "5", "6", "7", "8", "9"}

IsUpper(c) == \E i \in 1..Len(UpperLetters) : UpperLetters[i] = c
IsLower(c) == \E i \in 1..Len(LowerLetters) : LowerLetters[i] = c

\* str.lower(), one character
LowerChar(c) ==
    IF IsUpper(c)
    THEN LowerLetters[CHOOSE i \in 1..Len(UpperLetters) : UpperLetters[i] = c]
    ELSE c

\* str.lower()
Lower(s) == [i \in 1..Len(s) |-> LowerChar(s[i])]

(***************************************************************************)
(* utils.py: TextNormalizer                                                *)
(***************************************************************************)

\* The replacement table of fix_common_ocr_errors, in insertion order.
replacements_terms_first ==
    << << <<"l","n","v","o","i","c","e">>, <<"I","n","v","o","i","c","e">> >>,
       << <<"l","n","v">>, <<"I","n","v">> >>,
       << <<"T","o","t","a","I">>, <<"T","o","t","a","l">> >>,
       << <<"0","l">>, <<"0","1">> >>,
       << <<"O">>, <<"0">> >>,
       << <<"l">>, <<"1">> >>,
       << <<"I">>, <<"1">> >>,
       << <<"S">>, <<"5">> >> >>

replacements ==
    << << <<"€">>, <<"€">> >>,
       << <<"$">>, <<"$">> >>,
       << <<"£">>, <<"£">> >>,
       << <<"O">>, <<"0">> >>,
       << <<"l">>, <<"1">> >>,
       << <<"I">>, <<"1">> >>,
       << <<"S">>, <<"5">> >>,
       << <<"l","n","v","o","i","c","e">>, <<"I","n","v","o","i","c","e">> >>,
       << <<"l","n","v">>, <<"I","n","v">> >>,
       << <<"T","o","t","a","I">>, <<"T","o","t","a","l">> >>,
       << <<"A","m","o","u","n","t">>, <<"A","m","o","u","n","t">> >>,
       << <<"V","A","T">>, <<"V","A","T">> >>,
       << <<"B","T","W">>, <<"B","T","W">> >>,
       << <<"0","l">>, <<"0","1">> >>,
       << <<"0","2">>, <<"0","2">> >>,
       << <<"0","3">>, <<"0","3">> >>,
       << <<"0","4">>, <<"0","4">> >>,
       << <<"0","5">>, <<"0","5">> >>,
       << <<"0","6">>, <<"0","6">> >>,
       << <<"0","7">>, <<"0","7">> >>,
       << <<"0","8">>, <<"0","8">> >>,
       << <<"0","9">>, <<"0","9">> >> >>

\* for old, new in replacements.items(): text = text.replace(old, new)
RECURSIVE ApplyReplacements(_, _)
ApplyReplacements(text, table) ==
    IF table = <<>> THEN text
    ELSE ApplyReplacements(Replace(text, table[1][1], table[1][2]), Tail(table))

\* The text after each turn of the loop over replacements.items().
RECURSIVE ReplacementTexts(_, _)
ReplacementTexts(text, table) ==
    IF table = <<>> THEN <<>>
    ELSE LET replaced == Replace(text, table[1][1], table[1][2]) IN
         <<replaced>> \o ReplacementTexts(replaced, Tail(table))

\* The letter rules applied in numeric contexts only: a letter becomes its
\* digit when a digit stands next to it.
fix_ocr_errors_in_numbers(text) ==
    LET digit_of == [c \in {"O", "l", "I", "S"} |->
                        CASE c = "O" -> "0" [] c = "S" -> "5" [] OTHER -> "1"]
        by_digit(i) == \/ (i > 1 /\ text[i - 1] \in Digits)
                       \/ (i < Len(text) /\ text[i + 1] \in Digits)
    IN  [i \in 1..Len(text) |->
            IF text[i] \in DOMAIN digit_of /\ by_digit(i) THEN digit_of[text[i]] ELSE text[i]]

fix_common_ocr_errors(text) == ApplyReplacements(text, replacements)

\* The loop body with the emptiness test made on the line as received.
CleanLineRaw(cleaned_lines, line) ==
    IF line /= <<>> THEN Append(cleaned_lines, Strip(line))
    ELSE IF cleaned_lines /= <<>> /\ cleaned_lines[Len(cleaned_lines)] /= <<>>
         THEN Append(cleaned_lines, <<>>)
         ELSE cleaned_lines

\* One iteration of the loop over lines: a line that is blank once stripped
\* is kept (as '') only after a non-blank line.
CleanLine(cleaned_lines, line) ==
    LET cleaned_line == Strip(line) IN
    IF cleaned_line /= <<>> THEN Append(cleaned_lines, cleaned_line)
    ELSE IF cleaned_lines /= <<>> /\ cleaned_lines[Len(cleaned_lines)] /= <<>>
         THEN Append(cleaned_lines, <<>>)
         ELSE cleaned_lines

RECURSIVE CleanLines(_, _)
CleanLines(lines, cleaned_lines) ==
    IF lines = <<>> THEN cleaned_lines
    ELSE CleanLines(Tail(lines), CleanLine(cleaned_lines, Head(lines)))

clean_financial_text(text) ==
    IF text = <<>> THEN text
    ELSE fix_common_ocr_errors(Join(CleanLines(Split(text, "\n"), <<>>), <<"\n">>))

(***************************************************************************)
(* utils.py: RemoteOcrExtractor, reading order                             *)
(***************************************************************************)

\* A block of the response is a record with BlockType and, when the service
\* sets them, Page, Text, Top and Left (Geometry.BoundingBox.Top / .Left).
\* block.get('Page', 1)
PageOf(block) == IF "Page" \in DOMAIN block THEN block.Page ELSE 1
\* x.get('Geometry', {}).get('BoundingBox', {}).get('Top', 0), and Left
TopOf(block) == IF "Top" \in DOMAIN block THEN block.Top ELSE 0
LeftOf(block) == IF "Left" \in DOMAIN block THEN block.Left ELSE 0
\* line.get('Text', '')
TextOf(block) == IF "Text" \in DOMAIN block THEN block.Text ELSE <<>>

\* The first loop: pages maps a page number to its LINE blocks in response
\* order; a PAGE block (re)sets its page to the empty list.
RECURSIVE GroupByPage(_, _)
GroupByPage(blocks, pages) ==
    IF blocks = <<>> THEN pages
    ELSE LET block == Head(blocks)
             page_num == PageOf(block)
         IN  IF block.BlockType = "PAGE"
             THEN GroupByPage(Tail(blocks),
                      IF page_num \in DOMAIN pages
                      THEN [pages EXCEPT ![page_num] = <<>>]
                      ELSE pages @@ (page_num :> <<>>))
             ELSE IF block.BlockType = "LINE"
             THEN GroupByPage(Tail(blocks),
                      IF page_num \in DOMAIN pages
                      THEN [pages EXCEPT ![page_num] = Append(@, block)]
                      ELSE pages @@ (page_num :> <<block>>))
             ELSE GroupByPage(Tail(blocks), pages)

\* The sort key of lines.sort: (Top, Left), compared as tuples.
KeyLeftFirst(a, b) ==
    \/ LeftOf(a) < LeftOf(b)
    \/ (LeftOf(a) = LeftOf(b) /\ TopOf(a) <= TopOf(b))

KeyLessEq(a, b) ==
    \/ TopOf(a) < TopOf(b)
    \/ (TopOf(a) = TopOf(b) /\ LeftOf(a) <= LeftOf(b))

\* list.sort is stable: a line is inserted after the lines whose key is not
\* larger than its own.
RECURSIVE InsertLine(_, _)
InsertLine(sorted, line) ==
    IF sorted = <<>> THEN <<line>>
    ELSE IF KeyLessEq(Head(sorted), line)
         THEN <<Head(sorted)>> \o InsertLine(Tail(sorted), line)
         ELSE <<line>> \o sorted

RECURSIVE SortLines(_, _)
SortLines(lines, sorted) ==
    IF lines = <<>> THEN sorted
    ELSE SortLines(Tail(lines), InsertLine(sorted, Head(lines)))

\* for line in lines: text = line.get('Text', '').strip(); if text: += text + '\n'
RECURSIVE EmitLines(_)
EmitLines(lines) ==
    IF lines = <<>> THEN <<>>
    ELSE LET text == Strip(TextOf(Head(lines))) IN
         (IF text /= <<>> THEN text \o <<"\n">> ELSE <<>>) \o EmitLines(Tail(lines))

PageBreak ==
    <<"\n", "-", "-", "-", " ", "P", "A", "G", "E", " ", "B", "R", "E", "A", "K",
      " ", "-", "-", "-", "\n">>

SetMax(S) == CHOOSE m \in S : \A x \in S : x <= m
SetMin(S) == CHOOSE m \in S : \A x \in S : m <= x

\* The second loop, over sorted(pages.keys()) from page_num on.
RECURSIVE EmitPages(_, _)
EmitPages(pages, todo) ==
    IF todo = {} THEN <<>>
    ELSE LET page_num == SetMin(todo) IN
         EmitLines(SortLines(pages[page_num], <<>>))
         \o (IF page_num < SetMax(DOMAIN pages) THEN PageBreak ELSE <<>>)
         \o EmitPages(pages, todo \ {page_num})

extract_text_with_formatting(response) ==
    LET pages == GroupByPage(response, <<>>) IN
    Strip(EmitPages(pages, DOMAIN pages))

(***************************************************************************)
(* utils.py: the extractors                                                *)
(*                                                                         *)
(* An uploaded file is [name, kind, pages, rows]: kind is what its bytes   *)
(* are ("pdf": PyPDF2 reads pages, the text of each page; "excel": pandas  *)
(* reads rows; "corrupt": neither reads it).  A call returns               *)
(* [ok, text, error]: its str, or the exception it raises.                 *)
(***************************************************************************)
Returned(text) == [ok |-> TRUE, text |-> text, error |-> ""]
Raised(error) == [ok |-> FALSE, text |-> <<>>, error |-> error]

PdfError == "Failed to extract text from PDF"
UnsupportedError == "Unsupported file type for text extraction"
AwsError == "AWS Textract synchronous extraction failed"
ExcelError == "Failed to process Excel file"

\* str(n) for n >= 0
RECURSIVE IntToStr(_)
IntToStr(n) ==
    LET digit == <<"0", "1", "2", "3", "4", "5", "6", "7", "8", "9">>[(n % 10) + 1] IN
    IF n < 10 THEN <<digit>> ELSE IntToStr(n \div 10) \o <<digit>>

\* The loop of extract_text_from_pdf from page index page_num (0-based) on.
RECURSIVE PdfPagesText(_, _)
PdfPagesText(pages, page_num) ==
    IF page_num >= Len(pages) THEN <<>>
    ELSE LET page_text == pages[page_num + 1] IN
         (IF Strip(page_text) /= <<>>
          THEN <<"-", "-", "-", " ", "P", "A", "G", "E", " ">> \o IntToStr(page_num + 1)
               \o <<" ", "-", "-", "-", "\n">> \o page_text \o <<"\n", "\n">>
          ELSE <<>>)
         \o PdfPagesText(pages, page_num + 1)

extract_text_from_pdf(file) ==
    IF file.kind /= "pdf" THEN Raised(PdfError)
    ELSE Returned(clean_financial_text(Strip(PdfPagesText(file.pages, 0))))

extract_text_from_file(file) ==
    IF EndsWith(Lower(file.name), <<".", "p", "d", "f">>)
    THEN extract_text_from_pdf(file)
    ELSE Raised(UnsupportedError)

\* What the remote side does in one call is [fails, blocks]: fails names the
\* step that raises ("read": file.read(), "client": get_textract_client(),
\* "detect": detect_document_text) or is "none", and then blocks is the
\* response.
extract_text_with_aws_textract_sync(file, remote) ==
    IF remote.fails /= "none" THEN Raised(AwsError)
    ELSE Returned(clean_financial_text(extract_text_with_formatting(remote.blocks)))

\* extract_text_hybrid, with the extractors it invoked, in order, as calls.
HybridNoFallback(file, use_aws, remote) ==
    IF use_aws
    THEN [result |-> extract_text_with_aws_textract_sync(file, remote),
          calls  |-> <<"remote">>]
    ELSE [result |-> extract_text_from_file(file), calls |-> <<"local">>]

HybridFallbackOnEmpty(file, use_aws, remote) ==
    LET aws == extract_text_with_aws_textract_sync(file, remote) IN
    IF use_aws /\ aws.ok /\ aws.text /= <<>>
    THEN [result |-> aws, calls |-> <<"remote">>]
    ELSE [result |-> extract_text_from_file(file),
          calls  |-> IF use_aws THEN <<"remote", "local">> ELSE <<"local">>]

extract_text_hybrid(file, use_aws, remote) ==
    LET aws == extract_text_with_aws_textract_sync(file, remote) IN
    IF use_aws /\ aws.ok
    THEN [result |-> aws, calls |-> <<"remote">>]
    ELSE [result |-> extract_text_from_file(file),
          calls  |-> IF use_aws THEN <<"remote", "local">> ELSE <<"local">>]

\* A table is a sequence of rows, a row a sequence of cells, "NaN" the
\* missing cell.  df.dropna(how='all'), then df.fillna('')
RECURSIVE DropEmptyRows(_)
DropEmptyRows(rows) ==
    IF rows = <<>> THEN <<>>
    ELSE (IF \A c \in 1..Len(Head(rows)) : Head(rows)[c] = "NaN" THEN <<>> ELSE <<Head(rows)>>)
         \o DropEmptyRows(Tail(rows))

FillNa(rows) ==
    [r \in 1..Len(rows) |-> [c \in 1..Len(rows[r]) |->
        IF rows[r][c] = "NaN" THEN "" ELSE rows[r][c]]]

\* process_excel_file returns [ok, table, error].
process_excel_file(file) ==
    IF file.kind /= "excel" THEN [ok |-> FALSE, table |-> <<>>, error |-> ExcelError]
    ELSE [ok |-> TRUE, table |-> FillNa(DropEmptyRows(file.rows)), error |-> ""]

(***************************************************************************)
(* app.py: QualityScorer                                                   *)
(***************************************************************************)
\* \w of the re module
IsWordChar(c) == IsUpper(c) \/ IsLower(c) \/ c \in Digits \/ c = "_"

\* [^\w\s€$£.,:;()\-]: what the scorer counts as a special character
IsSpecialChar(c) ==
    /\ ~IsWordChar(c)
    /\ c \notin Whitespace
    /\ c \notin {"€", "$", "£", ".", ",", ":", ";", "(", ")", "-"}

financial_keywords ==
    << <<"i", "n", "v", "o", "i", "c", "e">>,
       <<"t", "o", "t", "a", "l">>,
       <<"a", "m", "o", "u", "n", "t">>,
       <<"v", "a", "t">>,
       <<"b", "t", "w">>,
       <<"d", "a", "t", "e">>,
       <<"p", "a", "y", "m", "e", "n", "t">>,
       <<"r", "e", "c", "e", "i", "p", "t">>,
       <<"s", "t", "a", "t", "e", "m", "e", "n", "t">> >>

currency_symbols ==
    << <<"€">>, <<"$">>, <<"£">>,
       <<"U", "S", "D">>, <<"E", "U", "R">>, <<"G", "B", "P">> >>

\* sum(1 for keyword in financial_keywords if keyword.lower() in text.lower())
FoundKeywords(text) ==
    LET lowered == Lower(text) IN
    Cardinality({k \in 1..Len(financial_keywords) :
                    Contains(lowered, Lower(financial_keywords[k]))})

\* len(re.findall(r'\d+', text)): the maximal runs of digits
NumberCount(text) ==
    Cardinality({i \in 1..Len(text) :
                    /\ text[i] \in Digits
                    /\ (i = 1 \/ text[i - 1] \notin Digits)})

\* any(symbol in text for symbol in currency_symbols)
HasCurrency(text) ==
    \E k \in 1..Len(currency_symbols) : Contains(text, currency_symbols[k])

\* len(re.findall(r'[^\w\s€$£.,:;()\-]', text))
SpecialCount(text) == Cardinality({i \in 1..Len(text) : IsSpecialChar(text[i])})

\* re.findall(r'(.)\1{3,}', text) is non-empty: some character other than a
\* newline occurs four times in a row
HasRepeated(text) ==
    \E i \in 1..(Len(text) - 3) :
        /\ text[i] /= "\n"
        /\ text[i + 1] = text[i] /\ text[i + 2] = text[i] /\ text[i + 3] = text[i]

Max(a, b) == IF a >= b THEN a ELSE b
Min(a, b) == IF a <= b THEN a ELSE b

\* The score before the early return and the final clamp.
PenalisedScore(text) ==
    100 - (IF Len(text) < 50 THEN 30 ELSE 0)
        - (IF FoundKeywords(text) < 3 THEN 20 ELSE 0)
        - (IF NumberCount(text) < 3 THEN 15 ELSE 0)
        - (IF ~HasCurrency(text) THEN 10 ELSE 0)
        - (IF 10 * SpecialCount(text) > Len(text) THEN 25 ELSE 0)
        - (IF HasRepeated(text) THEN 15 ELSE 0)

validate_text_quality_unclamped(text) ==
    IF text = <<>> \/ Len(Strip(text)) < 10 THEN 0
    ELSE PenalisedScore(text)

validate_text_quality(text) ==
    IF text = <<>> \/ Len(Strip(text)) < 10 THEN 0
    ELSE Max(0, Min(100, PenalisedScore(text)))

(***************************************************************************)
(* orchestrator.py                                                         *)
(*                                                                         *)
(* What the language model does in one call is [fails, output]: the call   *)
(* raises, or output is what it produced, which with_structured_output     *)
(* validates against the schema.  A call returns [ok, value, error].       *)
(***************************************************************************)
Value(v) == [ok |-> TRUE, value |-> v, error |-> ""]
Failed(error) == [ok |-> FALSE, value |-> <<>>, error |-> error]

LlmError == "language model call failed"
ValidationError == "output does not validate against the schema"

\* DocumentClassifier.document_type: Literal[...]
DocumentTypes ==
    {"invoice", "bank_statement", "tax_document", "receipt", "financial_report", "other"}

\* The classifier with the model's answer returned as written.
classify_document_unvalidated(llm) ==
    IF llm.fails THEN Failed(LlmError) ELSE Value(llm.output)

classify_document(llm) ==
    IF llm.fails THEN Failed(LlmError)
    ELSE IF llm.output \notin DocumentTypes THEN Failed(ValidationError)
    ELSE Value(llm.output)

\* InvoiceTransaction: four required fields; vat_category is a str.
ValidInvoiceTransaction(t) ==
    {"description", "amount_pre_vat", "vat_percentage", "vat_category"} \subseteq DOMAIN t

\* InvoiceOutput: six required fields, transactions a list of InvoiceTransaction.
ValidInvoiceOutput(o) ==
    /\ {"invoice_no", "date", "invoice_to", "country", "transactions", "total_amount"}
          \subseteq DOMAIN o
    /\ \A i \in 1..Len(o.transactions) : ValidInvoiceTransaction(o.transactions[i])

process_invoice(llm) ==
    IF llm.fails THEN Failed(LlmError)
    ELSE IF ~ValidInvoiceOutput(llm.output) THEN Failed(ValidationError)
    ELSE Value(llm.output)

\* BankStatementOutput: transactions; process_bank_statement returns them.
process_bank_statement(llm) ==
    IF llm.fails THEN Failed(LlmError)
    ELSE IF "transactions" \notin DOMAIN llm.output THEN Failed(ValidationError)
    ELSE Value(llm.output.transactions)

\* GeneralDocumentOutput: five required fields.
process_general_document(llm) ==
    IF llm.fails THEN Failed(LlmError)
    ELSE IF ~({"document_title", "document_date", "key_amounts", "key_entities", "summary"}
                 \subseteq DOMAIN llm.output) THEN Failed(ValidationError)
    ELSE Value(llm.output)

(***************************************************************************)
(* app.py: the two steps of the session                                    *)
(***************************************************************************)

\* file.name.endswith(('.xlsx', '.xls'))
IsExcelName(name) ==
    EndsWith(name, <<".", "x", "l", "s", "x">>) \/ EndsWith(name, <<".", "x", "l", "s">>)

\* Step 1, the loop over uploaded_files from file i on.  The first exception
\* leaves the loop for the handler's except clause.  log has, per file
\* reached, the function it was given to and the extractors invoked.
RECURSIVE ExtractLoop(_, _, _, _, _, _, _)
ExtractLoop(files, remotes, use_aws, i, texts, processed, log) ==
    IF i > Len(files)
    THEN [error |-> "", extracted_texts |-> texts, processed_files |-> processed, log |-> log]
    ELSE LET file == files[i] IN
         IF IsExcelName(file.name)
         THEN LET excel_result == process_excel_file(file)
                  entry == [file |-> file, fn |-> "process_excel_file", calls |-> <<>>,
                            ok |-> excel_result.ok]
              IN  IF ~excel_result.ok
                  THEN [error |-> excel_result.error, extracted_texts |-> texts,
                        processed_files |-> processed, log |-> Append(log, entry)]
                  ELSE ExtractLoop(files, remotes, use_aws, i + 1, texts,
                           Append(processed, [name |-> file.name, type |-> "excel",
                                              result |-> excel_result.table]),
                           Append(log, entry))
         ELSE LET hybrid == extract_text_hybrid(file, use_aws, remotes[i])
                  entry == [file |-> file, fn |-> "extract_text_hybrid",
                            calls |-> hybrid.calls, ok |-> hybrid.result.ok]
              IN  IF ~hybrid.result.ok
                  THEN [error |-> hybrid.result.error, extracted_texts |-> texts,
                        processed_files |-> processed, log |-> Append(log, entry)]
                  ELSE ExtractLoop(files, remotes, use_aws, i + 1,
                           Append(texts, [file_name |-> file.name,
                                          text |-> hybrid.result.text,
                                          quality_score |-> validate_text_quality(hybrid.result.text)]),
                           processed, Append(log, entry))

\* Step 2, the if/elif chain on doc_type: the extractor, or the else branch.
DispatchNoReceipt(doc_type) ==
    IF doc_type = "invoice" THEN "process_invoice"
    ELSE IF doc_type = "bank_statement" THEN "process_bank_statement"
    ELSE IF doc_type \in {"tax_document", "financial_report", "other"}
         THEN "process_general_document"
    ELSE "unsupported"

Dispatch(doc_type) ==
    IF doc_type = "invoice" THEN "process_invoice"
    ELSE IF doc_type = "bank_statement" THEN "process_bank_statement"
    ELSE IF doc_type \in {"tax_document", "receipt", "financial_report", "other"}
         THEN "process_general_document"
    ELSE "unsupported"

\* What the model writes when it gets a schema right, and one that lacks
\* required fields; behaviour is "valid", "invalid" or "fails" (the call
\* raises).
SampleOutput(extractor) ==
    IF extractor = "process_invoice"
    THEN [invoice_no |-> "123", date |-> "2024-01-01", invoice_to |-> "client", country |-> "NL",
          transactions |-> <<[description |-> "item", amount_pre_vat |-> 500,
                              vat_percentage |-> 21, vat_category |-> "1a"]>>,
          total_amount |-> 605]
    ELSE IF extractor = "process_bank_statement"
    THEN [transactions |-> <<[transaction_id |-> "t1"]>>]
    ELSE [document_title |-> "title", document_date |-> "2024-01-01", key_amounts |-> <<>>,
          key_entities |-> <<>>, summary |-> "summary"]

LlmFor(extractor, behaviour) ==
    [fails  |-> (behaviour = "fails"),
     output |-> IF behaviour = "valid" THEN SampleOutput(extractor) ELSE [note |-> "n/a"]]

RunExtractor(extractor, behaviour) ==
    IF extractor = "process_invoice" THEN process_invoice(LlmFor(extractor, behaviour))
    ELSE IF extractor = "process_bank_statement"
         THEN process_bank_statement(LlmFor(extractor, behaviour))
    ELSE process_general_document(LlmFor(extractor, behaviour))

\* Step 2, one iteration of the loop over extracted_texts, inside its try:
\* what it appends to all_results, and for the log what it called and how it
\* ended ("recorded", "warning": the else branch, "error": the except clause).
\* The log also keeps what the classifier's model wrote ("" when its call
\* raised).
AnalyzeDocument(item, classifier_llm, extractor_behaviour) ==
    LET doc_type == classify_document(classifier_llm) IN
    IF ~doc_type.ok
    THEN [results |-> <<>>,
          log |-> [file_name |-> item.file_name, doc_type |-> "", calls |-> <<"classify_document">>,
                   outcome |-> "error", llm_output |-> classifier_llm.output]]
    ELSE LET extractor == Dispatch(doc_type.value) IN
         IF extractor = "unsupported"
         THEN [results |-> <<>>,
               log |-> [file_name |-> item.file_name, doc_type |-> doc_type.value,
                        calls |-> <<"classify_document">>, outcome |-> "warning",
                        llm_output |-> classifier_llm.output]]
         ELSE LET final_output == RunExtractor(extractor, extractor_behaviour) IN
              [results |-> IF final_output.ok
                           THEN <<[file_name |-> item.file_name, type |-> doc_type.value,
                                   result |-> final_output.value]>>
                           ELSE <<>>,
               log |-> [file_name |-> item.file_name, doc_type |-> doc_type.value,
                        calls |-> <<"classify_document", extractor>>,
                        outcome |-> IF final_output.ok THEN "recorded" ELSE "error",
                        llm_output |-> classifier_llm.output]]

\* Step 2, the loop over st.session_state.extracted_texts from item i on.
RECURSIVE AnalyzeLoop(_, _, _, _, _, _)
AnalyzeLoop(items, classifier_llms, extractor_behaviours, i, results, log) ==
    IF i > Len(items) THEN [all_results |-> results, log |-> log]
    ELSE LET done == AnalyzeDocument(items[i], classifier_llms[i], extractor_behaviours[i]) IN
         AnalyzeLoop(items, classifier_llms, extractor_behaviours, i + 1,
                     results \o done.results, Append(log, done.log))

\* Step 2, the loop over st.session_state.processed_files.
ExcelResults(processed) ==
    [i \in 1..Len(processed) |->
        [file_name |-> processed[i].name, type |-> "excel", result |-> processed[i].result]]

(***************************************************************************)
(* State                                                                   *)
(***************************************************************************)
VARIABLES
    \* TextNormalizer harness: the text given, clean(text), clean(clean(text))
    cinput, cout, cout2, cstage,
    \* QualityScorer harness: a text, what is left of it once special
    \* characters are deleted, and the score of each
    qtext, qdenoised, qscore, qscore2, qstage, qchunks,
    \* RemoteOcrExtractor harness: the service's response and the text built
    \* from it
    response, ftext, fstage,
    \* HybridExtractionGateway harness: the arguments of the last call of
    \* extract_text_hybrid, what the remote side did, and what the call
    \* returned or raised and invoked
    hfile, huse_aws, hremote, hresult, hcalls, hstage,
    \* InvoiceExtractor harness: what the model produced and what
    \* process_invoice made of it
    inv_output, inv_result, istage,
    \* The session of app.py: aws_available (set at start-up), the uploader's
    \* files, st.session_state.extracted_texts and .processed_files, the
    \* all_results of the last analysis, and what the last run of each step
    \* did (step1_error: the message of the handler's except clause)
    aws_available, uploaded_files, extracted_texts, processed_files, all_results,
    step1_log, step1_error, step2_log, last_step,
    \* fix_common_ocr_errors harness: a text (typed in ochunks pieces), what
    \* the function returns for it, and the text after each turn of its loop
    otext, ofixed, otexts, ostage, ochunks

cleanVars == <<cinput, cout, cout2, cstage>>
scoreVars == <<qtext, qdenoised, qscore, qscore2, qstage, qchunks>>
fmtVars == <<response, ftext, fstage>>
hybVars == <<hfile, huse_aws, hremote, hresult, hcalls, hstage>>
invVars == <<inv_output, inv_result, istage>>
appVars == <<aws_available, uploaded_files, extracted_texts, processed_files, all_results,
             step1_log, step1_error, step2_log, last_step>>
ocrVars == <<otext, ofixed, otexts, ostage, ochunks>>
vars == <<cleanVars, scoreVars, fmtVars, hybVars, invVars, appVars, ocrVars>>

\* What each harness leaves alone.
cleanFrame == <<scoreVars, fmtVars, hybVars, invVars, appVars, ocrVars>>
scoreFrame == <<cleanVars, fmtVars, hybVars, invVars, appVars, ocrVars>>
fmtFrame == <<cleanVars, scoreVars, hybVars, invVars, appVars, ocrVars>>
hybFrame == <<cleanVars, scoreVars, fmtVars, invVars, appVars, ocrVars>>
invFrame == <<cleanVars, scoreVars, fmtVars, hybVars, appVars, ocrVars>>
appFrame == <<cleanVars, scoreVars, fmtVars, hybVars, invVars, ocrVars>>
ocrFrame == <<cleanVars, scoreVars, fmtVars, hybVars, invVars, appVars>>

CleanIdle == cinput = <<>> /\ cout = <<>> /\ cout2 = <<>> /\ cstage = "idle"
ScoreIdle ==
    /\ qtext = <<>> /\ qdenoised = <<>> /\ qscore = 0 /\ qscore2 = 0
    /\ qstage = "idle" /\ qchunks = 0
FormatIdle == response = <<>> /\ ftext = <<>> /\ fstage = "idle"
HybridIdle ==
    /\ hfile = <<>> /\ huse_aws = FALSE /\ hremote = <<>> /\ hresult = <<>>
    /\ hcalls = <<>> /\ hstage = "idle"
InvoiceIdle == inv_output = <<>> /\ inv_result = <<>> /\ istage = "idle"
AppIdle ==
    /\ aws_available = FALSE /\ uploaded_files = <<>> /\ extracted_texts = <<>>
    /\ processed_files = <<>> /\ all_results = <<>> /\ step1_log = <<>>
    /\ step1_error = "" /\ step2_log = <<>> /\ last_step = "idle"
OcrIdle ==
    /\ otext = <<>> /\ ofixed = <<>> /\ otexts = <<>> /\ ostage = "idle" /\ ochunks = 0

(***************************************************************************)
(* SpecClean: clean_financial_text applied once and twice to a text        *)
(***************************************************************************)
MaxCleanLen == 4
CleanAlphabet == {"O", "l", "I", "S", "n", "v", "0", " ", "\n"}

InitClean ==
    /\ cinput = <<>>
    /\ cout = <<>>
    /\ cout2 = <<>>
    /\ cstage = "typing"
    /\ ScoreIdle /\ FormatIdle /\ HybridIdle /\ InvoiceIdle /\ AppIdle /\ OcrIdle

CleanType(c) ==
    /\ cstage = "typing"
    /\ Len(cinput) < MaxCleanLen
    /\ cinput' = Append(cinput, c)
    /\ UNCHANGED <<cout, cout2, cstage, cleanFrame>>

CleanOnce ==
    /\ cstage = "typing"
    /\ cout' = clean_financial_text(cinput)
    /\ cstage' = "once"
    /\ UNCHANGED <<cinput, cout2, cleanFrame>>

CleanTwice ==
    /\ cstage = "once"
    /\ cout2' = clean_financial_text(cout)
    /\ cstage' = "twice"
    /\ UNCHANGED <<cinput, cout, cleanFrame>>

NextClean ==
    \/ \E c \in CleanAlphabet : CleanType(c)
    \/ CleanOnce
    \/ CleanTwice

SpecClean == InitClean /\ [][NextClean]_vars

\* C7: clean_financial_text is idempotent: cleaning a cleaned text changes
\* nothing, for every text (empty, blank, with leading, trailing or repeated
\* blank lines).
C7_Idempotent == cstage = "twice" => cout2 = cout

\* A text with leading, repeated and trailing blank lines has been cleaned
\* twice, and cleaning changed it.
C7_Witness ==
    /\ cstage = "twice"
    /\ cinput = <<"\n", "O", "\n", "\n">>
    /\ cout = <<"0", "\n">>
    /\ cout2 = cout

\* The letters an OCR engine gives for digits, and the digit of each.
OcrLetters == {"O", "l", "I", "S"}
DigitOf(c) == CASE c = "O" -> "0" [] c = "l" -> "1" [] c = "I" -> "1" [] c = "S" -> "5"
\* A text with every one of these letters replaced by its digit.
LettersToDigits(text) ==
    [i \in 1..Len(text) |-> IF text[i] \in OcrLetters THEN DigitOf(text[i]) ELSE text[i]]
\* The text clean_financial_text hands to fix_common_ocr_errors.
JoinedLines(text) == Join(CleanLines(Split(text, "\n"), <<>>), <<"\n">>)

\* C13: the letter-to-digit substitutions are applied to all text: the output
\* of clean_financial_text has no 'O', 'l', 'I' or 'S', every occurrence in
\* the cleaned lines having become '0', '1', '1', '5', next to a digit or not.
C13_LettersToDigits ==
    cstage \in {"once", "twice"} =>
        /\ \A i \in 1..Len(cout) : cout[i] \notin OcrLetters
        /\ cout = LettersToDigits(JoinedLines(cinput))

\* A text with letters away from any digit has been cleaned.
C13_Witness ==
    /\ cstage = "once"
    /\ cinput = <<"S", "n", " ", "I">>
    /\ cout = <<"5", "n", " ", "1">>

(***************************************************************************)
(* SpecOcr: fix_common_ocr_errors on a text                                *)
(***************************************************************************)
MaxOcrChunks == 3

\* What a text is typed from: the misread terms and date the table has
\* corrections for, the four letters, digits, a term the table maps to
\* itself, a blank.
OcrChunks ==
    { <<"l", "n", "v", "o", "i", "c", "e">>, <<"l", "n", "v">>, <<"T", "o", "t", "a", "I">>,
      <<"0", "l">>, <<"O">>, <<"S">>, <<"I">>, <<"0">>, <<"2">>, <<"V", "A", "T">>, <<" ">> }

InitOcr ==
    /\ otext = <<>>
    /\ ofixed = <<>>
    /\ otexts = <<>>
    /\ ostage = "typing"
    /\ ochunks = 0
    /\ CleanIdle /\ ScoreIdle /\ FormatIdle /\ HybridIdle /\ InvoiceIdle /\ AppIdle

OcrType(chunk) ==
    /\ ostage = "typing"
    /\ ochunks < MaxOcrChunks
    /\ otext' = otext \o chunk
    /\ ochunks' = ochunks + 1
    /\ UNCHANGED <<ofixed, otexts, ostage, ocrFrame>>

\* cleaned_text = fix_common_ocr_errors(cleaned_text)
OcrFix ==
    /\ ostage = "typing"
    /\ ofixed' = fix_common_ocr_errors(otext)
    /\ otexts' = ReplacementTexts(otext, replacements)
    /\ ostage' = "fixed"
    /\ UNCHANGED <<otext, ochunks, ocrFrame>>

NextOcr ==
    \/ \E chunk \in OcrChunks : OcrType(chunk)
    \/ OcrFix

SpecOcr == InitOcr /\ [][NextOcr]_vars

\* The text a rule of the table was applied to: the function's argument for
\* the first rule, the text the rule before it left for the others.
TextBefore(k) == IF k = 1 THEN otext ELSE otexts[k - 1]
\* The four rules of one letter to its digit.
IsLetterRule(rule) == Len(rule[1]) = 1 /\ rule[1][1] \in OcrLetters

\* C15: the table is applied in insertion order with the one-letter rules
\* ahead of the corrections of terms and dates, so fix_common_ocr_errors
\* gives on every text what the four rules O->0, l->1, I->1, S->5 give: no
\* other rule changes the text, and the corrections 'lnvoice', 'lnv',
\* 'TotaI' and '0l' never find a match.
C15_FourRulesOnly ==
    ostage = "fixed" =>
        /\ ofixed = LettersToDigits(otext)
        /\ Len(otexts) = Len(replacements)
        /\ otexts[Len(otexts)] = ofixed
        /\ \A k \in 1..Len(replacements) :
              ~IsLetterRule(replacements[k]) =>
                  /\ otexts[k] = TextBefore(k)
                  /\ replacements[k][1] /= replacements[k][2] =>
                        ~Contains(TextBefore(k), replacements[k][1])

\* A text with the three misread terms and the misread date has been fixed:
\* only letters became digits.
C15_Witness ==
    /\ ostage = "fixed"
    /\ otext = <<"l", "n", "v", "o", "i", "c", "e", "T", "o", "t", "a", "I", "0", "l">>
    /\ ofixed = <<"1", "n", "v", "o", "i", "c", "e", "T", "o", "t", "a", "1", "0", "1">>

(***************************************************************************)
(* SpecScorer: validate_text_quality on a text and on the same text with   *)
(* special characters deleted                                              *)
(***************************************************************************)
MaxChunks == 4

\* What a text is typed from: a line with three keywords and three numbers,
\* a currency symbol, OCR noise, a repeated character, filler, a blank.
ScoreChunks ==
    { <<"I", "n", "v", "o", "i", "c", "e", " ", "T", "O", "T", "A", "L", " ",
        "a", "m", "o", "u", "n", "t", " ", "1", "2", " ", "3", "4", " ",
        "5", "6", " ">>,
      <<"€">>,
      <<"#">>,
      <<"a", "a", "a", "a">>,
      <<"a", "b", "c", "d", "e", "f", "g", "h", "i">>,
      <<" ">> }

InitScorer ==
    /\ qtext = <<>>
    /\ qdenoised = <<>>
    /\ qscore = 0
    /\ qscore2 = 0
    /\ qstage = "typing"
    /\ qchunks = 0
    /\ CleanIdle /\ FormatIdle /\ HybridIdle /\ InvoiceIdle /\ AppIdle /\ OcrIdle

ScoreType(chunk) ==
    /\ qstage = "typing"
    /\ qchunks < MaxChunks
    /\ qtext' = qtext \o chunk
    /\ qchunks' = qchunks + 1
    /\ UNCHANGED <<qdenoised, qscore, qscore2, qstage, scoreFrame>>

\* quality_score = validate_text_quality(extracted_text)
ScoreText ==
    /\ qstage = "typing"
    /\ qscore' = validate_text_quality(qtext)
    /\ qdenoised' = qtext
    /\ qscore2' = validate_text_quality(qtext)
    /\ qstage' = "scored"
    /\ UNCHANGED <<qtext, qchunks, scoreFrame>>

\* One special character is deleted from the text and the rest scored again.
ScoreDenoise(i) ==
    /\ qstage = "scored"
    /\ i \in 1..Len(qdenoised)
    /\ IsSpecialChar(qdenoised[i])
    /\ qdenoised' = SubSeq(qdenoised, 1, i - 1) \o SubSeq(qdenoised, i + 1, Len(qdenoised))
    /\ qscore2' = validate_text_quality(qdenoised')
    /\ UNCHANGED <<qtext, qchunks, qscore, qstage, scoreFrame>>

NextScorer ==
    \/ \E chunk \in ScoreChunks : ScoreType(chunk)
    \/ ScoreText
    \/ \E i \in 1..Len(qdenoised) : ScoreDenoise(i)

SpecScorer == InitScorer /\ [][NextScorer]_vars

\* C5: every score is an integer in [0,100], and it is 0 when the text is
\* empty or its trimmed length is below 10, whatever the penalties.
C5_ScoreRange ==
    qstage = "scored" =>
        /\ qscore \in 0..100
        /\ qscore2 \in 0..100
        /\ (qtext = <<>> \/ Len(Strip(qtext)) < 10) => qscore = 0
        /\ (qdenoised = <<>> \/ Len(Strip(qdenoised)) < 10) => qscore2 = 0

\* A text of trimmed length 10 or more on which every penalty applies
\* (100 - 115 before the clamp) has been scored 0.
C5_Witness ==
    /\ qstage = "scored"
    /\ qscore = 0
    /\ Len(Strip(qtext)) >= 10
    /\ PenalisedScore(qtext) < 0

\* C6: deleting special characters from a text never lowers its score.
C6_Monotonic == qstage = "scored" => qscore2 >= qscore

(***************************************************************************)
(* SpecFormat: extract_text_with_formatting on a response whose blocks     *)
(* arrive in any order                                                     *)
(***************************************************************************)
MaxBlocks == 3

FormatPages == {1, 2}
\* (Top, Left) of a line, in tenths of the page
FormatPositions == {<<0, 0>>, <<0, 1>>, <<1, 0>>}
FormatTexts == {<<"A">>, <<"B", " ">>, <<" ">>}

FormatBlocks ==
    {[BlockType |-> "PAGE"]}
    \cup {[BlockType |-> "PAGE", Page |-> p] : p \in FormatPages}
    \cup {[BlockType |-> "LINE", Page |-> p, Top |-> pos[1], Left |-> pos[2], Text |-> t] :
            p \in FormatPages, pos \in FormatPositions, t \in FormatTexts}

InitFormat ==
    /\ response = <<>>
    /\ ftext = <<>>
    /\ fstage = "receiving"
    /\ CleanIdle /\ ScoreIdle /\ HybridIdle /\ InvoiceIdle /\ AppIdle /\ OcrIdle

\* The service's response holds one more block.
FormatReceive(block) ==
    /\ fstage = "receiving"
    /\ Len(response) < MaxBlocks
    /\ response' = Append(response, block)
    /\ UNCHANGED <<ftext, fstage, fmtFrame>>

\* extracted_text = extract_text_with_formatting(response)
FormatExtract ==
    /\ fstage = "receiving"
    /\ ftext' = extract_text_with_formatting(response)
    /\ fstage' = "done"
    /\ UNCHANGED <<response, fmtFrame>>

NextFormat ==
    \/ \E block \in FormatBlocks : FormatReceive(block)
    \/ FormatExtract

SpecFormat == InitFormat /\ [][NextFormat]_vars

\* The LINE blocks of the response that have a text once stripped.
TextLines == {i \in 1..Len(response) :
                 /\ response[i].BlockType = "LINE"
                 /\ Strip(TextOf(response[i])) /= <<>>}
\* Block i's text is the text of no other block.
UniqueText(i) ==
    \A j \in TextLines \ {i} : Strip(TextOf(response[j])) /= Strip(TextOf(response[i]))
\* Block i comes before block j in reading order: page, then Top, then Left.
ReadsBefore(i, j) ==
    LET a == response[i]
        b == response[j]
    IN  \/ PageOf(a) < PageOf(b)
        \/ /\ PageOf(a) = PageOf(b)
           /\ \/ TopOf(a) < TopOf(b)
              \/ (TopOf(a) = TopOf(b) /\ LeftOf(a) < LeftOf(b))
\* The lines of the text built, and where a text is among them.
OutLines == Split(ftext, "\n")
IsEmitted(t) == \E k \in 1..Len(OutLines) : OutLines[k] = t
OutPos(t) == CHOOSE k \in 1..Len(OutLines) : OutLines[k] = t

BreakMarker == SubSeq(PageBreak, 2, Len(PageBreak) - 1)

\* C12: for a response with one page or more, pages with a PAGE block and
\* no non-empty LINE included, the text built has the page-break marker only
\* between the content of two pages: the text neither begins nor ends with
\* the marker.
C12_MarkerBetweenPages ==
    (fstage = "done" /\ response /= <<>>) =>
        /\ ~StartsWith(ftext, BreakMarker)
        /\ ~EndsWith(ftext, BreakMarker)

(***************************************************************************)
(* SpecHybrid: calls of extract_text_hybrid                                *)
(***************************************************************************)
MaxPages == 2

\* Every sequence of at most n elements of S.
RECURSIVE SeqsUpTo(_, _)
SeqsUpTo(S, n) ==
    IF n = 0 THEN {<<>>}
    ELSE LET shorter == SeqsUpTo(S, n - 1) IN
         shorter \cup {Append(q, x) : q \in shorter, x \in S}

HybridNames ==
    { <<"a", ".", "p", "d", "f">>, <<"A", ".", "P", "D", "F">>,
      <<"b", ".", "x", "l", "s", "x">> }
\* The text PyPDF2 finds on a page: none, blanks only, or a line with an
\* ambiguous letter.
PageTexts == { <<>>, <<" ", "\n">>, <<"N", "O", " ", "7">> }

HybridFiles ==
    {[name |-> n, kind |-> "pdf", pages |-> pages, rows |-> <<>>] :
        n \in HybridNames, pages \in SeqsUpTo(PageTexts, MaxPages)}
    \cup {[name |-> n, kind |-> "corrupt", pages |-> <<>>, rows |-> <<>>] : n \in HybridNames}

RemoteFailures ==
    {[fails |-> f, blocks |-> <<>>] : f \in {"read", "client", "detect"}}
RemoteResponses ==
    {[fails |-> "none", blocks |-> blocks] :
        blocks \in { <<>>,
                     <<[BlockType |-> "PAGE", Page |-> 1],
                       [BlockType |-> "LINE", Page |-> 1, Top |-> 0, Left |-> 0, Text |-> <<" ">>]>>,
                     <<[BlockType |-> "PAGE", Page |-> 1],
                       [BlockType |-> "LINE", Page |-> 1, Top |-> 0, Left |-> 0,
                        Text |-> <<"S", "U", "M", " ", "9">>]>> }}
RemoteOutcomes == RemoteFailures \cup RemoteResponses

InitHybrid ==
    /\ hfile = <<>>
    /\ huse_aws = FALSE
    /\ hremote = <<>>
    /\ hresult = <<>>
    /\ hcalls = <<>>
    /\ hstage = "idle"
    /\ CleanIdle /\ ScoreIdle /\ FormatIdle /\ InvoiceIdle /\ AppIdle /\ OcrIdle

\* extracted_text = extract_text_hybrid(file, use_aws=...): one call in a
\* behaviour, since a call keeps nothing for the next.
HybridCall(file, use_aws, remote) ==
    LET hybrid == extract_text_hybrid(file, use_aws, remote) IN
    /\ hstage = "idle"
    /\ hfile' = file
    /\ huse_aws' = use_aws
    /\ hremote' = remote
    /\ hresult' = hybrid.result
    /\ hcalls' = hybrid.calls
    /\ hstage' = "returned"
    /\ UNCHANGED hybFrame

NextHybrid ==
    \E file \in HybridFiles, use_aws \in BOOLEAN, remote \in RemoteOutcomes :
        HybridCall(file, use_aws, remote)

SpecHybrid == InitHybrid /\ [][NextHybrid]_vars

\* How often extractor e was invoked in the last call.
CallCount(e) == Cardinality({k \in 1..Len(hcalls) : hcalls[k] = e})

\* C1: when the remote attempt fails, in any way, extract_text_hybrid(file,
\* use_aws=True) ends as extract_text_from_file(file) does: with its text or
\* with its error, never with the remote error.
C1_FallbackEqualsLocal ==
    (hstage = "returned" /\ huse_aws /\ hremote.fails /= "none") =>
        /\ hresult = extract_text_from_file(hfile)
        /\ hresult.error /= AwsError

\* The client could not be made (no credentials) and the call returned the
\* text of a digital PDF.
C1_Witness ==
    /\ hstage = "returned" /\ huse_aws /\ hremote.fails = "client"
    /\ hresult.ok /\ hresult.text /= <<>>
    /\ hcalls = <<"remote", "local">>

\* C10: in a call of extract_text_hybrid the remote extractor is attempted
\* at most once and only when use_aws is true; the local extractor is
\* invoked exactly when use_aws is false or the remote attempt failed; when
\* the remote attempt succeeds its text is returned, empty or not, and the
\* local extractor is not invoked.
C10_CallOrder ==
    hstage = "returned" =>
        /\ CallCount("remote") = (IF huse_aws THEN 1 ELSE 0)
        /\ CallCount("local") = (IF ~huse_aws \/ hremote.fails /= "none" THEN 1 ELSE 0)
        /\ (huse_aws /\ hremote.fails = "none") =>
              /\ hresult = extract_text_with_aws_textract_sync(hfile, hremote)
              /\ hresult.ok

\* The remote attempt succeeded with an empty text on a PDF that has text,
\* and the empty text was returned.
C10_Witness ==
    /\ hstage = "returned" /\ huse_aws /\ hremote.fails = "none"
    /\ hresult.ok /\ hresult.text = <<>>
    /\ hcalls = <<"remote">>
    /\ extract_text_from_file(hfile).ok
    /\ extract_text_from_file(hfile).text /= <<>>

\* The same of the extractors: a text that extract_text_hybrid returns, from
\* the remote or the local extractor, has none of the letters 'O', 'l', 'I',
\* 'S' (each went through clean_financial_text).
ExtractorTextsHaveDigits ==
    (hstage = "returned" /\ hresult.ok) =>
        \A i \in 1..Len(hresult.text) : hresult.text[i] \notin OcrLetters
\* The remote extractor returned a text in which an 'S' became '5'.
ExtractorTextsWitness ==
    /\ hstage = "returned" /\ hresult.ok /\ hcalls = <<"remote">>
    /\ \E i \in 1..Len(hresult.text) : hresult.text[i] = "5"

(***************************************************************************)
(* SpecInvoice: process_invoice on what the model produces                 *)
(***************************************************************************)
MaxTransactions == 2

\* The codes the prompt tells the model to use.
VatCodes == {"1a", "1c", "4b"}

\* A line item as the model writes it: with a code of the prompt, with
\* another code, or without the field.
ModelTransactions ==
    {[description |-> "item", amount_pre_vat |-> 100, vat_percentage |-> p, vat_category |-> c] :
        p \in {0, 21}, c \in VatCodes \cup {"2a"}}
    \cup {[description |-> "item", amount_pre_vat |-> 100, vat_percentage |-> p] : p \in {0, 21}}

InitInvoice ==
    /\ inv_output = [invoice_no |-> "123", date |-> "2024-01-01", invoice_to |-> "client",
                     country |-> "NL", transactions |-> <<>>, total_amount |-> 100]
    /\ inv_result = <<>>
    /\ istage = "generating"
    /\ CleanIdle /\ ScoreIdle /\ FormatIdle /\ HybridIdle /\ AppIdle /\ OcrIdle

\* The model writes one more line item.
InvoiceModelItem(t) ==
    /\ istage = "generating"
    /\ Len(inv_output.transactions) < MaxTransactions
    /\ inv_output' = [inv_output EXCEPT !.transactions = Append(@, t)]
    /\ UNCHANGED <<inv_result, istage, invFrame>>

\* result = chain.invoke(...); return result
InvoiceCall(fails) ==
    /\ istage = "generating"
    /\ inv_result' = process_invoice([fails |-> fails, output |-> inv_output])
    /\ istage' = "returned"
    /\ UNCHANGED <<inv_output, invFrame>>

NextInvoice ==
    \/ \E t \in ModelTransactions : InvoiceModelItem(t)
    \/ \E fails \in BOOLEAN : InvoiceCall(fails)

SpecInvoice == InitInvoice /\ [][NextInvoice]_vars

MaxFiles == 2

ExcelRows == << <<"x", "NaN">>, <<"NaN", "NaN">> >>

\* What a user uploads: a digital PDF, a file named .pdf that PyPDF2 cannot
\* read (the remote service may), a spreadsheet, and a spreadsheet whose
\* extension is in capitals (the uploader matches extensions in any case).
AppFiles ==
    { [name |-> <<"a", ".", "p", "d", "f">>, kind |-> "pdf",
       pages |-> << <<"N", "O", " ", "7">> >>, rows |-> <<>>],
      [name |-> <<"c", ".", "p", "d", "f">>, kind |-> "corrupt", pages |-> <<>>, rows |-> <<>>],
      [name |-> <<"b", ".", "x", "l", "s", "x">>, kind |-> "excel", pages |-> <<>>,
       rows |-> ExcelRows],
      [name |-> <<"B", ".", "X", "L", "S", "X">>, kind |-> "excel", pages |-> <<>>,
       rows |-> ExcelRows] }

\* The selections of the uploader: at most MaxFiles files, each once.
Batches ==
    {b \in SeqsUpTo(AppFiles, MaxFiles) : \A i, j \in 1..Len(b) : i /= j => b[i] /= b[j]}

\* The remote service may fail on any file, and it rejects a spreadsheet.
AppRemoteOutcomes(file) ==
    {[fails |-> "detect", blocks |-> <<>>]}
    \cup (IF file.kind /= "excel"
          THEN {[fails |-> "none",
                 blocks |-> <<[BlockType |-> "PAGE", Page |-> 1],
                              [BlockType |-> "LINE", Page |-> 1, Top |-> 0, Left |-> 0,
                               Text |-> <<"S", "U", "M", " ", "9">>]>>]}
          ELSE {})

\* What the classifier's model call does: it raises, or it writes one of the
\* six types or something else.
ClassifierLlms ==
    {[fails |-> TRUE, output |-> ""]}
    \cup {[fails |-> FALSE, output |-> t] : t \in DocumentTypes \cup {"contract"}}
\* What an extractor's model call does: see LlmFor.
ExtractorBehaviours == {"valid", "invalid"}
\* The part of ClassifierLlms the session is run with.
AppClassifierLlms == {llm \in ClassifierLlms : llm.fails \/ llm.output = "invoice"}

Init ==
    /\ aws_available \in BOOLEAN
    /\ uploaded_files = <<>>
    /\ extracted_texts = <<>>
    /\ processed_files = <<>>
    /\ all_results = <<>>
    /\ step1_log = <<>>
    /\ step1_error = ""
    /\ step2_log = <<>>
    /\ last_step = "start"
    /\ CleanIdle /\ ScoreIdle /\ FormatIdle /\ HybridIdle /\ InvoiceIdle /\ OcrIdle

\* The user changes the uploader's selection; the script runs again with no
\* button pressed.
Upload(batch) ==
    /\ uploaded_files' = batch
    /\ all_results' = <<>>
    /\ step1_log' = <<>>
    /\ step1_error' = ""
    /\ step2_log' = <<>>
    /\ last_step' = "upload"
    /\ UNCHANGED <<aws_available, extracted_texts, processed_files, appFrame>>

\* The step with the session state written whatever the loop's end: what was
\* extracted before an exception is stored.
ExtractStepIncremental(remotes) ==
    /\ uploaded_files /= <<>>
    /\ LET run == ExtractLoop(uploaded_files, remotes, aws_available, 1, <<>>, <<>>, <<>>) IN
       /\ step1_log' = run.log
       /\ step1_error' = run.error
       /\ extracted_texts' = run.extracted_texts
       /\ processed_files' = run.processed_files
    /\ all_results' = <<>>
    /\ step2_log' = <<>>
    /\ last_step' = "extract"
    /\ UNCHANGED <<aws_available, uploaded_files, appFrame>>

\* "1. Extract Text from Documents": the loop, then the two assignments to
\* the session state, all inside one try.
ExtractStep(remotes) ==
    /\ uploaded_files /= <<>>
    /\ LET run == ExtractLoop(uploaded_files, remotes, aws_available, 1, <<>>, <<>>, <<>>) IN
       /\ step1_log' = run.log
       /\ step1_error' = run.error
       /\ IF run.error = ""
          THEN /\ extracted_texts' = run.extracted_texts
               /\ processed_files' = run.processed_files
          ELSE UNCHANGED <<extracted_texts, processed_files>>
    /\ all_results' = <<>>
    /\ step2_log' = <<>>
    /\ last_step' = "extract"
    /\ UNCHANGED <<aws_available, uploaded_files, appFrame>>

\* "Run AI Analysis on All Documents": the loop over the extracted texts,
\* then the loop over the Excel files.
AnalyzeStep(classifier_llms, extractor_behaviours) ==
    /\ extracted_texts /= <<>> \/ processed_files /= <<>>
    /\ LET run == AnalyzeLoop(extracted_texts, classifier_llms, extractor_behaviours,
                              1, <<>>, <<>>) IN
       /\ all_results' = run.all_results \o ExcelResults(processed_files)
       /\ step2_log' = run.log
    /\ step1_log' = <<>>
    /\ step1_error' = ""
    /\ last_step' = "analyze"
    /\ UNCHANGED <<aws_available, uploaded_files, extracted_texts, processed_files, appFrame>>

Next ==
    \/ \E batch \in Batches : Upload(batch)
    \/ \E remotes \in [1..Len(uploaded_files) -> UNION {AppRemoteOutcomes(f) : f \in AppFiles}] :
          /\ \A i \in 1..Len(uploaded_files) : remotes[i] \in AppRemoteOutcomes(uploaded_files[i])
          /\ ExtractStep(remotes)
    \/ \E classifier_llms \in [1..Len(extracted_texts) -> AppClassifierLlms],
          extractor_behaviours \in [1..Len(extracted_texts) -> ExtractorBehaviours] :
          AnalyzeStep(classifier_llms, extractor_behaviours)

Spec == Init /\ [][Next]_vars

(***************************************************************************)
(* SpecAnalysis: the analysis step, from the session a first extraction    *)
(* step leaves, with everything the classifier's model can write           *)
(***************************************************************************)
InitAnalysis ==
    /\ aws_available \in BOOLEAN
    /\ uploaded_files \in Batches \ {<<>>}
    /\ \E remotes \in [1..Len(uploaded_files) -> UNION {AppRemoteOutcomes(f) : f \in AppFiles}] :
          /\ \A i \in 1..Len(uploaded_files) : remotes[i] \in AppRemoteOutcomes(uploaded_files[i])
          /\ LET run == ExtractLoop(uploaded_files, remotes, aws_available, 1, <<>>, <<>>, <<>>) IN
             /\ run.error = ""
             /\ extracted_texts = run.extracted_texts
             /\ processed_files = run.processed_files
             /\ step1_log = run.log
    /\ step1_error = ""
    /\ all_results = <<>>
    /\ step2_log = <<>>
    /\ last_step = "extract"
    /\ CleanIdle /\ ScoreIdle /\ FormatIdle /\ HybridIdle /\ InvoiceIdle /\ OcrIdle

NextAnalysis ==
    \E classifier_llms \in [1..Len(extracted_texts) -> ClassifierLlms],
       extractor_behaviours \in [1..Len(extracted_texts) -> ExtractorBehaviours] :
       AnalyzeStep(classifier_llms, extractor_behaviours)

SpecAnalysis == InitAnalysis /\ [][NextAnalysis]_vars

\* The names under which a result of the session state is recorded.
RecordedNames ==
    {extracted_texts[k].file_name : k \in 1..Len(extracted_texts)}
    \cup {processed_files[k].name : k \in 1..Len(processed_files)}

\* C2: an error on one document of a batch never aborts the batch: in the
\* extraction step every file of the batch is processed and, unless it
\* failed itself, its result recorded; in the analysis step every extracted
\* text is analysed and, unless it failed itself, its result recorded.
C2_NoBatchAbort ==
    /\ last_step = "extract" =>
          /\ Len(step1_log) = Len(uploaded_files)
          /\ \A i \in 1..Len(step1_log) :
                step1_log[i].ok => step1_log[i].file.name \in RecordedNames
    /\ last_step = "analyze" =>
          /\ Len(step2_log) = Len(extracted_texts)
          /\ \A i \in 1..Len(step2_log) :
                step2_log[i].outcome = "recorded" =>
                    \E k \in 1..Len(all_results) :
                        all_results[k].file_name = step2_log[i].file_name

\* The extractor the dispatch is to choose for a type.
ExpectedExtractor(doc_type) ==
    CASE doc_type = "invoice" -> "process_invoice"
      [] doc_type = "bank_statement" -> "process_bank_statement"
      [] OTHER -> "process_general_document"

\* C3: for each of the six types classify_document returns, the dispatch
\* invokes exactly one extractor (invoice: process_invoice, bank_statement:
\* process_bank_statement, the other four: process_general_document), and
\* no document ends in the unsupported-type branch.
C3_DispatchComplete ==
    \A i \in 1..Len(step2_log) :
        /\ step2_log[i].outcome /= "warning"
        /\ step2_log[i].doc_type \in DocumentTypes =>
              step2_log[i].calls =
                  <<"classify_document", ExpectedExtractor(step2_log[i].doc_type)>>

\* A receipt and an invoice have been analysed in one run, each by its
\* extractor.
C3_Witness ==
    /\ last_step = "analyze"
    /\ Len(step2_log) = 2
    /\ step2_log[1].doc_type = "receipt"
    /\ step2_log[1].calls = <<"classify_document", "process_general_document">>
    /\ step2_log[1].outcome = "recorded"
    /\ step2_log[2].doc_type = "invoice"
    /\ step2_log[2].calls = <<"classify_document", "process_invoice">>

C14_AllOrNothing ==
    [][ /\ last_step' = "extract" =>
            LET raised == \E i \in 1..Len(step1_log') : ~step1_log'[i].ok IN
            /\ raised => UNCHANGED <<extracted_texts, processed_files>>
            /\ ~raised =>
                  /\ Len(step1_log') = Len(uploaded_files)
                  /\ Len(extracted_texts') + Len(processed_files') = Len(uploaded_files)
                  /\ \A i \in 1..Len(uploaded_files) :
                        \/ \E k \in 1..Len(extracted_texts') :
                              extracted_texts'[k].file_name = uploaded_files[i].name
                        \/ \E k \in 1..Len(processed_files') :
                              processed_files'[k].name = uploaded_files[i].name
        /\ last_step' = "analyze" =>
            /\ UNCHANGED <<extracted_texts, processed_files>>
            /\ Len(step2_log') = Len(extracted_texts)
            /\ \A i \in 1..Len(extracted_texts) :
                  step2_log'[i].file_name = extracted_texts[i].file_name
      ]_vars

\* A batch of two was given to the extraction step after a.pdf had been
\* extracted from an earlier batch: its first file was extracted, its second
\* raised, and the session state still holds a.pdf alone.
C14_Witness ==
    /\ last_step = "extract"
    /\ step1_error /= ""
    /\ Len(step1_log) = 2 /\ step1_log[1].ok /\ ~step1_log[2].ok
    /\ Len(extracted_texts) = 1
    /\ extracted_texts[1].file_name = <<"a", ".", "p", "d", "f">>
    /\ processed_files = <<>>
    /\ \A i \in 1..Len(uploaded_files) : uploaded_files[i].name /= <<"a", ".", "p", "d", "f">>

\* A file the uploader takes as a spreadsheet: its extension, in any case.
IsExcelUpload(file) == IsExcelName(Lower(file.name))

\* C4: an uploaded Excel file is never given to text extraction, to the
\* classifier or to a specialised extractor: it goes through
\* process_excel_file only, and its table is in the analysis results as
\* process_excel_file returned it.
C4_ExcelBypass ==
    /\ \A i \in 1..Len(step1_log) :
          IsExcelUpload(step1_log[i].file) =>
              (step1_log[i].fn = "process_excel_file" /\ step1_log[i].calls = <<>>)
    /\ \A i \in 1..Len(step2_log) :
          ~IsExcelName(Lower(step2_log[i].file_name))
    /\ last_step = "analyze" =>
          \A i \in 1..Len(processed_files) :
              \E k \in 1..Len(all_results) :
                  /\ all_results[k].file_name = processed_files[i].name
                  /\ all_results[k].type = "excel"
                  /\ all_results[k].result = processed_files[i].result

=============================================================================
